---- MODULE Spec2Model ----
(***************************************************************************)
(* Verification and repair orchestration of MIDAS:                         *)
(*   VerificationOrchestrator.verify_with_repair  (the reasoning loop)     *)
(*   VerificationPipeline.verify                  (generate/execute/parse) *)
(*   SafeExecutor.execute, VerificationOutputParser.parse                  *)
(* The oracles (code generation, reasoning repair) and the generated       *)
(* programs are the environment: every response and every program          *)
(* behaviour is chosen nondeterministically.                               *)
(***************************************************************************)
EXTENDS Integers, Sequences, FiniteSets, TLC

\* Largest max_reasoning_attempts a caller passes.
MaxAttempts == 2
\* Largest number of step records a generated program prints.
MaxSteps == 1
\* Largest number of execute calls made in one process.
MaxCalls == 2
\* Largest number of stdout lines handed to the parser on its own.
MaxLines == 2
\* Step counts of the outputs analyzed on their own: every count up to
\* FewSteps, and the count ManySteps.
FewSteps == 3
ManySteps == 5001

\* Caller-supplied budgets; the request field is not range-checked, so a
\* negative value can arrive.
AttemptBudgets == (-1)..MaxAttempts

----------------------------------------------------------------------------
\* JSON values and stdout lines

JAbsent == [t |-> "absent", v |-> 0]
JInt(n) == [t |-> "int", v |-> n]
JBool(b) == [t |-> "bool", v |-> IF b THEN 1 ELSE 0]
JStr == [t |-> "str", v |-> 0]

\* One stdout line: what json.loads makes of it, and, for an object, the
\* values under the three keys the parser looks at.
Line(j, s, ver, fav) == [json |-> j, step |-> s, verified |-> ver, fav |-> fav]

StepLine(n, b) == Line("object", JInt(n), JBool(b), JAbsent)
VerdictLine(b) == Line("object", JAbsent, JAbsent, JBool(b))
NotJsonLine == Line("invalid", JAbsent, JAbsent, JAbsent)
BlankLine == Line("blank", JAbsent, JAbsent, JAbsent)

\* What the generated programs of the pipeline model print: step records,
\* then one of the endings (no verdict, a verdict, a line that is not JSON,
\* a verdict and then such a line, two verdicts).
StepLines == {StepLine(1, TRUE), StepLine(2, FALSE)}
Endings == {<<>>, <<VerdictLine(TRUE)>>, <<VerdictLine(FALSE)>>, <<NotJsonLine>>, <<VerdictLine(TRUE), NotJsonLine>>, <<VerdictLine(FALSE), VerdictLine(TRUE)>>}

RECURSIVE SeqsUpTo(_, _)
SeqsUpTo(S, n) == IF n = 0 THEN {<<>>} ELSE LET shorter == SeqsUpTo(S, n - 1) IN shorter \cup {Append(q, x) : q \in {r \in shorter : Len(r) = n - 1}, x \in S}

----------------------------------------------------------------------------
\* Generated programs, by behaviour under exec()

\* clean: runs to completion; clean_warns: runs to completion while text is
\* written to stderr (the warning of _apply_resource_limits, or a warning of
\* a library the program calls); syntax_error: ast.parse rejects it;
\* import_error: imports a module outside the allow-list; runtime_error: an
\* uncaught Exception; timeout: loops until the alarm's TimeoutError ends it;
\* timeout_swallowed: loops, and catches the TimeoutError in its own handler;
\* system_exit: reaches sys.exit through an allowed module (SystemExit is a
\* BaseException).
FailingKinds == {"syntax_error", "import_error", "runtime_error", "timeout", "timeout_swallowed", "system_exit"}

Program(k, out) == [kind |-> k, stdout |-> out]
NoCode == Program("none", <<>>)

PipelineStdouts == {st \o e : st \in SeqsUpTo(StepLines, MaxSteps), e \in Endings}

Programs ==
  {Program("clean", out) : out \in PipelineStdouts} \cup {Program("clean_warns", out) : out \in Endings}
    \cup {Program(k, <<>>) : k \in FailingKinds}

\* What the code-generation oracle can do: raise, answer with text that
\* extract_code finds no code in, or answer with a program.
CodegenRaises == Program("oracle_raises", <<>>)
CodegenResponses == {CodegenRaises, NoCode} \cup Programs

\* What the reasoning-repair oracle can do.
RepairResponses == {"raises", "no_content", "text"}

----------------------------------------------------------------------------
\* SafeExecutor.execute

ExecResult(ok, out, err, et) == [success |-> ok, stdout |-> out, stderr |-> err, exception_type |-> et]
\* execution_result = None
NoExecResult == ExecResult(FALSE, <<>>, "", "unset")

\* except Exception: the outcome for a program whose exec() raised an
\* Exception of the given type; stderr carries the traceback.
FailedExec(et) == ExecResult(FALSE, <<>>, "traceback", et)

\* The Exception a failing program ends with.
ExceptionOf(prog) ==
  CASE prog.kind = "syntax_error" -> "SyntaxError"
    [] prog.kind = "import_error" -> "ImportError"
    [] prog.kind = "runtime_error" -> "ZeroDivisionError"
    [] prog.kind = "timeout" -> "TimeoutError"
    [] OTHER -> "none"

\* How a call of execute(code) ends: it returns a CodeExecutionResult; or a
\* BaseException that is not an Exception passes "except Exception" and
\* leaves execute; or exec() never finishes, because the single alarm's
\* TimeoutError was caught by the program.
Execute(prog) ==
  CASE prog.kind \in {"clean", "import_bypass"} -> [ends |-> "returns", result |-> ExecResult(TRUE, prog.stdout, "", "none")]
    [] prog.kind = "clean_warns" -> [ends |-> "returns", result |-> ExecResult(TRUE, prog.stdout, "warning", "none")]
    [] prog.kind = "system_exit" -> [ends |-> "raises", result |-> NoExecResult]
    [] prog.kind = "timeout_swallowed" -> [ends |-> "hangs", result |-> NoExecResult]
    [] OTHER -> [ends |-> "returns", result |-> FailedExec(ExceptionOf(prog))]

----------------------------------------------------------------------------
\* VerificationOutputParser.parse

NoVerdict == Line("none", JAbsent, JAbsent, JAbsent)
NoError == "none"
ParseOut(sv, fv, err) == [steps |-> sv, final_verdict |-> fv, parsing_error |-> err]

StepVerification(data) == [step_number |-> data.step.v, verified |-> (data.verified.v = 1)]

\* isinstance(x, int) holds of a bool as well.
IsInstanceInt(x) == x.t \in {"int", "bool"}
IsInstanceBool(x) == x.t = "bool"

\* Mutant: the first verdict record is kept.
TakeVerdictKeepsFirst(final_verdict, data) ==
  IF IsInstanceBool(data.fav) /\ final_verdict.json = "none" THEN data ELSE final_verdict

\* if isinstance(data.get("final_answer_verified"), bool): final_verdict = data
TakeVerdict(final_verdict, data) ==
  IF IsInstanceBool(data.fav) THEN data ELSE final_verdict

\* Mutant: a line that is not JSON is passed over like a blank one.
RECURSIVE ParseLinesSkipsNotJson(_, _, _)
ParseLinesSkipsNotJson(lines, step_verifications, final_verdict) ==
  IF lines = <<>> THEN ParseOut(step_verifications, final_verdict, NoError)
  ELSE LET data == Head(lines)
           rest == Tail(lines)
       IN CASE data.json \in {"blank", "invalid"} -> ParseLinesSkipsNotJson(rest, step_verifications, final_verdict)
            [] data.json \in {"number", "bool", "null"} -> ParseOut(step_verifications, final_verdict, "TypeError")
            [] data.json = "object" /\ data.step.t # "absent" /\ data.verified.t # "absent" ->
                 IF ~IsInstanceInt(data.step) \/ ~IsInstanceBool(data.verified)
                 THEN ParseLinesSkipsNotJson(rest, step_verifications, final_verdict)
                 ELSE ParseLinesSkipsNotJson(rest, Append(step_verifications, StepVerification(data)), final_verdict)
            [] data.json = "object" /\ data.fav.t # "absent" ->
                 ParseLinesSkipsNotJson(rest, step_verifications, TakeVerdict(final_verdict, data))
            [] data.json \in {"string", "array"} /\ data.step.t # "absent" /\ data.verified.t # "absent" ->
                 ParseOut(step_verifications, final_verdict, "TypeError")
            [] data.json \in {"string", "array"} /\ data.fav.t # "absent" ->
                 ParseOut(step_verifications, final_verdict, "AttributeError")
            [] OTHER -> ParseLinesSkipsNotJson(rest, step_verifications, final_verdict)

\* The loop over the lines; an exception leaves the loop and is returned
\* with what was collected so far. For a JSON string or array, `key in data`
\* is a substring or membership test (a key counts as present when it
\* succeeds), and the subscript or .get that follows raises.
RECURSIVE ParseLines(_, _, _)
ParseLines(lines, step_verifications, final_verdict) ==
  IF lines = <<>> THEN ParseOut(step_verifications, final_verdict, NoError)
  ELSE LET data == Head(lines)
           rest == Tail(lines)
       IN CASE data.json = "blank" -> ParseLines(rest, step_verifications, final_verdict)
            [] data.json = "invalid" -> ParseOut(step_verifications, final_verdict, "JSONDecodeError")
            [] data.json \in {"number", "bool", "null"} -> ParseOut(step_verifications, final_verdict, "TypeError")
            [] data.json = "object" /\ data.step.t # "absent" /\ data.verified.t # "absent" ->
                 IF ~IsInstanceInt(data.step) \/ ~IsInstanceBool(data.verified)
                 THEN ParseLines(rest, step_verifications, final_verdict)
                 ELSE ParseLines(rest, Append(step_verifications, StepVerification(data)), final_verdict)
            [] data.json = "object" /\ data.fav.t # "absent" ->
                 ParseLines(rest, step_verifications, TakeVerdict(final_verdict, data))
            [] data.json \in {"string", "array"} /\ data.step.t # "absent" /\ data.verified.t # "absent" ->
                 ParseOut(step_verifications, final_verdict, "TypeError")
            [] data.json \in {"string", "array"} /\ data.fav.t # "absent" ->
                 ParseOut(step_verifications, final_verdict, "AttributeError")
            [] OTHER -> ParseLines(rest, step_verifications, final_verdict)

Parse(execution_result) ==
  IF ~execution_result.success THEN ParseOut(<<>>, NoVerdict, NoError)
  ELSE ParseLines(execution_result.stdout, <<>>, NoVerdict)

\* final_verdict.get("final_answer_verified")
FinalAnswerVerified(final_verdict) == final_verdict.fav.t = "bool" /\ final_verdict.fav.v = 1

AllVerified(steps) == \A i \in 1..Len(steps) : steps[i].verified

----------------------------------------------------------------------------
\* VerificationPipeline: results

\* ReasoningOutput; worked_solution 0 is the caller's, k > 0 the text of the
\* k-th reasoning repair.
Reasoning(problem, solution) == [original_problem |-> problem, worked_solution |-> solution]
InputReasoning == Reasoning("problem", 0)

VerificationError(et, msg) == [error_type |-> et, message |-> msg]

VerificationResult(st, conf, r, c, er, sv, am, errs, rep, pf) ==
  [status |-> st, confidence_score |-> conf, reasoning_output |-> r, generated_code |-> c,
   execution_result |-> er, step_verifications |-> sv, answer_match |-> am, errors |-> errs,
   metadata |-> [repaired_from_codegen_fault |-> rep, pipeline_failure |-> pf]]

\* The local verification_result before its first assignment.
Unbound == VerificationResult("unbound", 0, InputReasoning, NoCode, NoExecResult, <<>>, "none", <<>>, FALSE, FALSE)

CountVerified(steps) == Cardinality({i \in 1..Len(steps) : steps[i].verified})

\* num/den rounded to the nearest integer.
RoundDiv(num, den) == (2 * num + den) \div (2 * den)

\* _calculate_confidence, in units of 0.0001
CalculateConfidence(exec_res, steps, final_verdict) ==
  IF ~exec_res.success \/ final_verdict = NoVerdict THEN 0
  ELSE LET base == 5000
           step_part == IF Len(steps) > 0 THEN RoundDiv(CountVerified(steps) * 2500, Len(steps)) ELSE 2500
           answer_part == IF FinalAnswerVerified(final_verdict) THEN 2500 ELSE 0
           score == base + step_part + answer_part
       IN IF score > 10000 THEN 10000 ELSE IF score < 0 THEN 0 ELSE score

\* Mutant: an answer mismatch is not reported.
FinalErrorsStepsOnly(status, steps, final_verdict) ==
  IF status # "failed_reasoning" THEN <<>>
  ELSE (IF ~AllVerified(steps) THEN <<VerificationError("assertion_failed", "step failed verification")>> ELSE <<>>)

\* The errors _create_final_result attaches.
FinalErrors(status, steps, final_verdict) ==
  IF status # "failed_reasoning" THEN <<>>
  ELSE (IF ~AllVerified(steps) THEN <<VerificationError("assertion_failed", "step failed verification")>> ELSE <<>>)
       \o (IF ~FinalAnswerVerified(final_verdict) THEN <<VerificationError("answer_mismatch", "final answer mismatch")>> ELSE <<>>)

CreateFinalResult(reasoning, c, exec_result, steps, final_verdict, status, repaired) ==
  VerificationResult(status, CalculateConfidence(exec_result, steps, final_verdict), reasoning, c, exec_result, steps,
                     IF FinalAnswerVerified(final_verdict) THEN "true" ELSE "false",
                     FinalErrors(status, steps, final_verdict), repaired, FALSE)

\* _create_reasoning_repair_context: the parts of the feedback, one per
\* error, then a heading and one part per failed step.
CreateReasoningRepairContext(result) ==
  LET failed_steps == SelectSeq(result.step_verifications, LAMBDA sv : ~sv.verified)
  IN [i \in 1..Len(result.errors) |-> result.errors[i].message]
     \o (IF failed_steps # <<>> THEN <<"The following steps were proven incorrect:">> \o [i \in 1..Len(failed_steps) |-> "step"] ELSE <<>>)

\* errors or [VerificationError(RUNTIME_ERROR, error_msg)]
CreateFailureResult(reasoning, error_msg, generated_code, errors) ==
  VerificationResult("failed_pipeline", 0, reasoning, generated_code, NoExecResult, <<>>, "none",
                     IF errors # <<>> THEN errors ELSE <<VerificationError("runtime_error", error_msg)>>, FALSE, TRUE)

\* Mutant: one of the two checks is enough for verified.
DiagnoseFirstPassEither(steps, final_verdict) ==
  IF AllVerified(steps) \/ FinalAnswerVerified(final_verdict) THEN "verified" ELSE "failed_reasoning"

\* verify, step 5: all_steps_ok and answer_ok
DiagnoseFirstPass(steps, final_verdict) ==
  IF AllVerified(steps) /\ FinalAnswerVerified(final_verdict) THEN "verified" ELSE "failed_reasoning"

\* Mutant: the steps are not looked at.
DiagnoseRepairedPassIgnoresSteps(steps, final_verdict) ==
  IF FinalAnswerVerified(final_verdict) THEN "verified" ELSE "failed_reasoning"

\* _handle_codegen_fault: the status of the now-working code
DiagnoseRepairedPass(steps, final_verdict) ==
  IF AllVerified(steps) /\ FinalAnswerVerified(final_verdict) THEN "verified" ELSE "failed_reasoning"

\* Mutant: a missing final verdict is not taken for a codegen fault.
FirstRunFaultIgnoresMissingVerdict(execution_result) ==
  LET parsed == Parse(execution_result)
  IN IF ~execution_result.success THEN "execution"
     ELSE IF parsed.parsing_error # NoError THEN "Output parsing failed"
     ELSE ""

\* The codegen fault of a first run, as verify finds it: "" when there is
\* none, else the extra_error text ("execution" when execution failed).
FirstRunFault(execution_result) ==
  LET parsed == Parse(execution_result)
  IN IF ~execution_result.success THEN "execution"
     ELSE IF parsed.parsing_error # NoError THEN "Output parsing failed"
     ELSE IF parsed.final_verdict = NoVerdict THEN "Missing final_answer_verified JSON object in output."
     ELSE ""

\* exec_result.stderr or extra_error or "Unknown execution error."
ErrorMessage(exec_result, extra_error) ==
  IF exec_result.stderr # "" THEN exec_result.stderr
  ELSE IF extra_error \notin {"", "execution"} THEN extra_error
  ELSE "Unknown execution error."

\* Mutant: the repaired run is not checked for a missing final verdict.
RepairedOutcomeNoVerdictCheck(reasoning, original_code, repaired, new_exec, msg) ==
  LET parsed == Parse(new_exec)
      failure == CreateFailureResult(reasoning, "Codegen fault repair failed", original_code,
                                     <<VerificationError("syntax_error", msg)>>)
  IN IF ~new_exec.success THEN failure
     ELSE IF parsed.parsing_error # NoError THEN failure
     ELSE CreateFinalResult(reasoning, repaired, new_exec, parsed.steps, parsed.final_verdict,
                            DiagnoseRepairedPass(parsed.steps, parsed.final_verdict), TRUE)

\* The outcome of _handle_codegen_fault once the repaired code has run.
RepairedOutcome(reasoning, original_code, repaired, new_exec, msg) ==
  LET parsed == Parse(new_exec)
      failure == CreateFailureResult(reasoning, "Codegen fault repair failed", original_code,
                                     <<VerificationError("syntax_error", msg)>>)
  IN IF ~new_exec.success THEN failure
     ELSE IF parsed.parsing_error # NoError \/ parsed.final_verdict = NoVerdict THEN failure
     ELSE CreateFinalResult(reasoning, repaired, new_exec, parsed.steps, parsed.final_verdict,
                            DiagnoseRepairedPass(parsed.steps, parsed.final_verdict), TRUE)

----------------------------------------------------------------------------
\* State

VARIABLES
  pc,                     \* verify_with_repair: "loop", "verify", "done" (returned), "raised"
  max_reasoning_attempts, \* the caller's argument
  attempt,                \* the loop variable of range(max_reasoning_attempts + 1)
  repair_history,         \* list of RepairAttempt
  current_reasoning,      \* the artifact the next pipeline run gets
  verification_result,    \* the local of verify_with_repair
  returned,               \* the pair verify_with_repair returned
  vpc,                    \* verify: "idle", "start", "generated", "executed", "fault",
                          \*   "repair_generated", "repair_executed", "returned", "raised", "hung"
  code,                   \* verify: the generated code
  execution_result,       \* verify: the result of its execution
  error_message,          \* _handle_codegen_fault: the error text of the repair prompt
  repaired_code,          \* _handle_codegen_fault: the repaired code
  new_exec_result,        \* _handle_codegen_fault: the result of its execution
  vresult,                \* the value the most recent verify() returned
  pipeline_runs,          \* calls of verify() in this verify_with_repair
  reasoning_oracle_calls, \* calls of the reasoning-repair oracle in this verify_with_repair
  last_repair_response,   \* what the reasoning-repair oracle did at its latest call
  last_repair_request,    \* the variables of the latest reasoning-repair request
  reasoning_output,       \* the caller's artifact
  codegen_calls,          \* calls of the code-generation oracle in the current verify()
  repair_codegen_calls,   \* of these, the calls in repair mode
  exec_calls,             \* calls of executor.execute in the current verify()
  parse_calls,            \* calls of parser.parse in the current verify()
  \* the process SafeExecutor.execute runs in
  sys_stdout,             \* sys.stdout: HostStream the stream of the host, <<t, n>> the stdout_capture of the n-th call of thread t
  sys_stderr,             \* sys.stderr, likewise
  sigalrm_handler,        \* SIGALRM handler: "host" the host's, t the timeout_handler of the call running in thread t
  alarm_pending,          \* signal.alarm has a deadline pending
  rlimit_as,              \* RLIMIT_AS: "inherited" or "max_memory"
  loaded_modules,         \* modules outside the allow-list whose import ran in this process
  stdout_of,              \* contents of the streams: stdout_of[HostStream] the host's, stdout_of[<<t, n>>] a capture's
  stderr_of,
  resource_ok,            \* setrlimit works on this platform
  \* the threads that call execute, and the call each is in
  epc,                    \* position of the thread: "idle", "entered", "redirected", "limited",
                          \*   "running", "printed", "exited", "except", "returned", "raised"
  ncalls,                 \* calls of execute the thread has made
  ecode,                  \* the code argument of its call
  old_stdout,             \* its locals old_stdout, old_stderr
  old_stderr,
  original_handler,       \* the local of its _timeout_context; "unbound" before its assignment
  exc,                    \* the exception in flight, "none" if none
  fired,                  \* its timeout_handler has been invoked
  eresult,                \* the CodeExecutionResult it returned
  \* one call of VerificationOutputParser.parse
  ppc,                    \* "start", "done"
  stdout_lines,           \* execution_result.stdout, line by line
  parse_result,           \* what parse returned
  \* one analysis of a parsed output (step 5 of verify and _create_final_result)
  apc,                    \* "start", "done"
  analyzed_steps,         \* the StepVerifications
  analyzed_verdict,       \* the final verdict
  analyzed_by,            \* "first" pass or "repaired" pass
  analyzed_result,        \* the VerificationResult built
  \* the /verify endpoint
  request                 \* the VerificationRequest received

orch_vars == <<pc, max_reasoning_attempts, attempt, repair_history, current_reasoning, verification_result, returned, pipeline_runs, reasoning_oracle_calls, last_repair_response, last_repair_request, reasoning_output>>
local_vars == <<code, execution_result, error_message, repaired_code, new_exec_result>>
count_vars == <<codegen_calls, repair_codegen_calls, exec_calls, parse_calls>>
pipeline_vars == <<orch_vars, vpc, local_vars, vresult, count_vars>>
process_vars == <<sys_stdout, sys_stderr, sigalrm_handler, alarm_pending, rlimit_as, loaded_modules, stdout_of, stderr_of, resource_ok>>
call_vars == <<epc, ncalls, ecode, old_stdout, old_stderr, original_handler, exc, fired, eresult>>
executor_vars == <<process_vars, call_vars>>
parser_vars == <<ppc, stdout_lines, parse_result>>
analysis_vars == <<apc, analyzed_steps, analyzed_verdict, analyzed_by, analyzed_result>>
endpoint_vars == <<request>>
vars == <<pipeline_vars, executor_vars, parser_vars, analysis_vars, endpoint_vars>>

\* No reasoning-repair request has been made.
NoRepairRequest == [original_problem |-> "none", failed_solution |-> 0]

RepairAttempt(n, ok) == [attempt_number |-> n, repair_type |-> "reasoning", success |-> ok]
NotReturned == [result |-> Unbound, history |-> <<>>]

\* The threads of the process that call execute; signal handlers run in,
\* and can be installed from, the main thread only.
Threads == {"main", "worker"}

\* The streams: the host's, and the captures of the calls.
HostStream == <<"host", 0>>
StreamIds == {HostStream} \cup (Threads \X (1..MaxCalls))

\* No call of execute has been made in the process.
ExecutorIdle ==
  /\ sys_stdout = HostStream
  /\ sys_stderr = HostStream
  /\ sigalrm_handler = "host"
  /\ alarm_pending = FALSE
  /\ rlimit_as = "inherited"
  /\ loaded_modules = {}
  /\ stdout_of = [k \in StreamIds |-> <<>>]
  /\ stderr_of = [k \in StreamIds |-> <<>>]
  /\ epc = [t \in Threads |-> "idle"]
  /\ ncalls = [t \in Threads |-> 0]
  /\ ecode = [t \in Threads |-> NoCode]
  /\ old_stdout = [t \in Threads |-> HostStream]
  /\ old_stderr = [t \in Threads |-> HostStream]
  /\ original_handler = [t \in Threads |-> "unbound"]
  /\ exc = [t \in Threads |-> "none"]
  /\ fired = [t \in Threads |-> FALSE]
  /\ eresult = [t \in Threads |-> NoExecResult]

\* No call of parse is modelled.
ParserIdle ==
  /\ ppc = "done"
  /\ stdout_lines = <<>>
  /\ parse_result = ParseOut(<<>>, NoVerdict, NoError)

PipelineInit ==
  /\ pc = "loop"
  /\ max_reasoning_attempts \in AttemptBudgets
  /\ attempt = 0
  /\ repair_history = <<>>
  /\ reasoning_output = InputReasoning
  /\ current_reasoning = reasoning_output
  /\ verification_result = Unbound
  /\ returned = NotReturned
  /\ vpc = "idle"
  /\ code = NoCode
  /\ execution_result = NoExecResult
  /\ error_message = ""
  /\ repaired_code = NoCode
  /\ new_exec_result = NoExecResult
  /\ vresult = Unbound
  /\ pipeline_runs = 0
  /\ reasoning_oracle_calls = 0
  /\ last_repair_response = "none"
  /\ last_repair_request = NoRepairRequest
  /\ codegen_calls = 0
  /\ repair_codegen_calls = 0
  /\ exec_calls = 0
  /\ parse_calls = 0

\* VerificationRequest, by the two fields that steer the repair loop.
VerificationRequest(enable, n) == [enable_reasoning_repair |-> enable, max_reasoning_attempts |-> n]

\* verify_with_repair is called directly, not through the endpoint; the
\* request shown is the one of the model's defaults.
NoRequest == VerificationRequest(TRUE, MaxAttempts)

\* No analysis is modelled on its own.
AnalysisIdle ==
  /\ apc = "done"
  /\ analyzed_steps = <<>>
  /\ analyzed_verdict = NoVerdict
  /\ analyzed_by = "first"
  /\ analyzed_result = Unbound

Init ==
  /\ PipelineInit
  /\ ExecutorIdle
  /\ resource_ok = TRUE
  /\ ParserIdle
  /\ AnalysisIdle
  /\ request = NoRequest

----------------------------------------------------------------------------
\* VerificationPipeline.verify, step by step

\* The frame of verify() and its counters at the call.
EnterVerify ==
  /\ vpc' = "start"
  /\ code' = NoCode
  /\ execution_result' = NoExecResult
  /\ error_message' = ""
  /\ repaired_code' = NoCode
  /\ new_exec_result' = NoExecResult
  /\ codegen_calls' = 0
  /\ repair_codegen_calls' = 0
  /\ exec_calls' = 0
  /\ parse_calls' = 0
  /\ vresult' = Unbound

\* verify() returns r.
ReturnFromVerify(r) ==
  /\ vpc' = "returned"
  /\ vresult' = r

\* The frame of verify() is gone once the caller goes on.
LeaveVerify ==
  /\ vpc' = "idle"
  /\ code' = NoCode
  /\ execution_result' = NoExecResult
  /\ error_message' = ""
  /\ repaired_code' = NoCode
  /\ new_exec_result' = NoExecResult

\* Mutant: a response without code is passed on as code.
GenerationFailedOnlyOnRaise(resp) == resp = CodegenRaises

\* code_generator.generate did not give code.
GenerationFailed(resp) == resp \in {CodegenRaises, NoCode}

\* 1. generate the initial code
VerifyGenerate ==
  /\ vpc = "start"
  /\ \E resp \in CodegenResponses :
       /\ codegen_calls' = codegen_calls + 1
       /\ IF GenerationFailed(resp)
          THEN /\ ReturnFromVerify(CreateFailureResult(current_reasoning, "Initial code generation failed", NoCode, <<>>))
               /\ UNCHANGED local_vars
          ELSE /\ vpc' = "generated"
               /\ code' = resp
               /\ UNCHANGED <<execution_result, error_message, repaired_code, new_exec_result, vresult>>
  /\ UNCHANGED <<orch_vars, repair_codegen_calls, exec_calls, parse_calls>>
  /\ UNCHANGED <<executor_vars, parser_vars, analysis_vars, endpoint_vars>>

\* 2. execute the code
VerifyExecute ==
  /\ vpc = "generated"
  /\ exec_calls' = exec_calls + 1
  /\ LET e == Execute(code)
     IN CASE e.ends = "returns" -> /\ vpc' = "executed"
                                   /\ execution_result' = e.result
                                   /\ pc' = pc
          [] e.ends = "raises" -> /\ vpc' = "raised"
                                  /\ pc' = "raised"
                                  /\ UNCHANGED execution_result
          [] e.ends = "hangs" -> /\ vpc' = "hung"
                                 /\ UNCHANGED <<pc, execution_result>>
  /\ UNCHANGED <<max_reasoning_attempts, attempt, repair_history, current_reasoning, verification_result, returned, pipeline_runs, reasoning_oracle_calls, last_repair_response, last_repair_request, reasoning_output>>
  /\ UNCHANGED <<code, error_message, repaired_code, new_exec_result, vresult, codegen_calls, repair_codegen_calls, parse_calls>>
  /\ UNCHANGED <<executor_vars, parser_vars, analysis_vars, endpoint_vars>>

\* 3.-5. analyze the result: a codegen fault goes to _handle_codegen_fault,
\* anything else is diagnosed and returned.
VerifyAnalyze ==
  /\ vpc = "executed"
  /\ LET fault == FirstRunFault(execution_result)
         parsed == Parse(execution_result)
     IN IF fault # ""
        THEN /\ vpc' = "fault"
             /\ error_message' = ErrorMessage(execution_result, fault)
             /\ UNCHANGED <<code, execution_result, repaired_code, new_exec_result, vresult>>
        ELSE /\ ReturnFromVerify(CreateFinalResult(current_reasoning, code, execution_result, parsed.steps, parsed.final_verdict,
                                                   DiagnoseFirstPass(parsed.steps, parsed.final_verdict), FALSE))
             /\ UNCHANGED local_vars
  /\ parse_calls' = (IF execution_result.success THEN parse_calls + 1 ELSE parse_calls)
  /\ UNCHANGED <<orch_vars, codegen_calls, repair_codegen_calls, exec_calls>>
  /\ UNCHANGED <<executor_vars, parser_vars, analysis_vars, endpoint_vars>>

\* _handle_codegen_fault: _get_repaired_code
HandleCodegenFaultRepair ==
  /\ vpc = "fault"
  /\ \E resp \in CodegenResponses :
       /\ codegen_calls' = codegen_calls + 1
       /\ repair_codegen_calls' = repair_codegen_calls + 1
       /\ IF GenerationFailed(resp)
          THEN /\ ReturnFromVerify(CreateFailureResult(current_reasoning, "Codegen fault repair failed", code,
                                                       <<VerificationError("syntax_error", error_message)>>))
               /\ UNCHANGED local_vars
          ELSE /\ vpc' = "repair_generated"
               /\ repaired_code' = resp
               /\ UNCHANGED <<code, execution_result, error_message, new_exec_result, vresult>>
  /\ UNCHANGED <<orch_vars, exec_calls, parse_calls>>
  /\ UNCHANGED <<executor_vars, parser_vars, analysis_vars, endpoint_vars>>

\* _handle_codegen_fault: re-execute the repaired code
HandleCodegenFaultExecute ==
  /\ vpc = "repair_generated"
  /\ exec_calls' = exec_calls + 1
  /\ LET e == Execute(repaired_code)
     IN CASE e.ends = "returns" -> /\ vpc' = "repair_executed"
                                   /\ new_exec_result' = e.result
                                   /\ pc' = pc
          [] e.ends = "raises" -> /\ vpc' = "raised"
                                  /\ pc' = "raised"
                                  /\ UNCHANGED new_exec_result
          [] e.ends = "hangs" -> /\ vpc' = "hung"
                                 /\ UNCHANGED <<pc, new_exec_result>>
  /\ UNCHANGED <<max_reasoning_attempts, attempt, repair_history, current_reasoning, verification_result, returned, pipeline_runs, reasoning_oracle_calls, last_repair_response, last_repair_request, reasoning_output>>
  /\ UNCHANGED <<code, execution_result, error_message, repaired_code, vresult, codegen_calls, repair_codegen_calls, parse_calls>>
  /\ UNCHANGED <<executor_vars, parser_vars, analysis_vars, endpoint_vars>>

\* Mutant: a faulty repaired run is repaired again.
HandleCodegenFaultAnalyzeAgain ==
  /\ vpc = "repair_executed"
  /\ LET r == RepairedOutcome(current_reasoning, code, repaired_code, new_exec_result, error_message)
     IN IF r.status = "failed_pipeline"
        THEN /\ vpc' = "fault"
             /\ code' = repaired_code
             /\ execution_result' = new_exec_result
             /\ UNCHANGED <<error_message, repaired_code, new_exec_result, vresult>>
        ELSE ReturnFromVerify(r) /\ UNCHANGED local_vars
  /\ parse_calls' = (IF new_exec_result.success THEN parse_calls + 1 ELSE parse_calls)
  /\ UNCHANGED <<orch_vars, codegen_calls, repair_codegen_calls, exec_calls>>
  /\ UNCHANGED <<executor_vars, parser_vars, analysis_vars, endpoint_vars>>

\* _handle_codegen_fault: analyze the output of the repaired code
HandleCodegenFaultAnalyze ==
  /\ vpc = "repair_executed"
  /\ ReturnFromVerify(RepairedOutcome(current_reasoning, code, repaired_code, new_exec_result, error_message))
  /\ parse_calls' = (IF new_exec_result.success THEN parse_calls + 1 ELSE parse_calls)
  /\ UNCHANGED <<orch_vars, local_vars, codegen_calls, repair_codegen_calls, exec_calls>>
  /\ UNCHANGED <<executor_vars, parser_vars, analysis_vars, endpoint_vars>>

----------------------------------------------------------------------------
\* VerificationOrchestrator.verify_with_repair

\* Mutant: range(max_reasoning_attempts + 2), one iteration too many.
InRangeOffByOne(a, n) == a <= n + 1

\* for attempt in range(max_reasoning_attempts + 1): the loop has another
\* iteration for this value of attempt.
InRange(a, n) == a <= n

\* Mutant: the repair is not skipped in iteration 0.
IsRepairIterationAlways(a) == a >= 0

\* if attempt > 0: this iteration starts with a reasoning repair.
IsRepairIteration(a) == a > 0

\* Mutant: only the first exit check; a failed_pipeline goes on to repair.
ExitsLoopVerifiedOnly(status) == status = "verified"

\* The two exit checks after a pipeline run.
ExitsLoop(status) == status = "verified" \/ status # "failed_reasoning"

\* Mutant: a response without content still counts as a repaired artifact.
RepairSucceedsUnlessRaised(resp) == resp # "raises"

\* _attempt_reasoning_repair: a ReasoningOutput when the call and the parse
\* of its content raise nothing, None (here FALSE) otherwise.
RepairSucceeds(resp) == resp = "text"

\* The variables of a reasoning-repair request (the feedback apart).
RepairVariables(problem, solution) == [original_problem |-> problem, failed_solution |-> solution]

\* Mutant: the request is built from the caller's artifact.
RepairRequestOfInput(failed_reasoning) == RepairVariables(InputReasoning.original_problem, InputReasoning.worked_solution)

\* variables = {"original_problem": failed_reasoning.original_problem,
\*              "failed_solution": failed_reasoning.worked_solution, ...}
RepairRequest(failed_reasoning) == RepairVariables(failed_reasoning.original_problem, failed_reasoning.worked_solution)

\* Mutant: the failed artifact is handed on instead of the repaired one.
RepairedReasoningKeepsOld(failed_reasoning, n) == failed_reasoning

\* The repaired artifact keeps failed_reasoning.original_problem.
RepairedReasoning(failed_reasoning, n) == Reasoning(failed_reasoning.original_problem, n)

\* return verification_result, repair_history
ReturnPair(result, history) ==
  /\ pc' = "done"
  /\ returned' = [result |-> result, history |-> history]

\* self.verification_pipeline.verify(current_reasoning) is called
CallVerify ==
  /\ pc' = "verify"
  /\ pipeline_runs' = pipeline_runs + 1
  /\ EnterVerify

\* Iteration 0: the initial verification.
LoopFirst ==
  /\ pc = "loop"
  /\ InRange(attempt, max_reasoning_attempts)
  /\ ~IsRepairIteration(attempt)
  /\ CallVerify
  /\ UNCHANGED <<max_reasoning_attempts, attempt, repair_history, current_reasoning, verification_result, returned, reasoning_oracle_calls, last_repair_response, last_repair_request, reasoning_output>>
  /\ UNCHANGED <<executor_vars, parser_vars, analysis_vars, endpoint_vars>>

\* A later iteration: the reasoning repair, its RepairAttempt, then either
\* the break or the next pipeline run.
LoopRepair ==
  /\ pc = "loop"
  /\ InRange(attempt, max_reasoning_attempts)
  /\ IsRepairIteration(attempt)
  /\ \E resp \in RepairResponses :
       LET ok == RepairSucceeds(resp)
           history == Append(repair_history, RepairAttempt(attempt, ok))
       IN /\ reasoning_oracle_calls' = reasoning_oracle_calls + 1
          /\ last_repair_response' = resp
          /\ last_repair_request' = RepairRequest(current_reasoning)
          /\ repair_history' = history
          /\ IF ~ok
             THEN /\ ReturnPair(verification_result, history)
                  /\ UNCHANGED <<current_reasoning, pipeline_runs, vpc, local_vars, vresult, count_vars>>
             ELSE /\ current_reasoning' = RepairedReasoning(current_reasoning, attempt)
                  /\ CallVerify
                  /\ UNCHANGED returned
  /\ UNCHANGED <<max_reasoning_attempts, attempt, verification_result, reasoning_output>>
  /\ UNCHANGED <<executor_vars, parser_vars, analysis_vars, endpoint_vars>>

\* The range is exhausted: the statement after the loop returns the local
\* verification_result, which is unbound if the loop body never ran.
LoopExhausted ==
  /\ pc = "loop"
  /\ ~InRange(attempt, max_reasoning_attempts)
  /\ IF verification_result = Unbound
     THEN pc' = "raised" /\ UNCHANGED returned
     ELSE ReturnPair(verification_result, repair_history)
  /\ UNCHANGED <<max_reasoning_attempts, attempt, repair_history, current_reasoning, verification_result, pipeline_runs, reasoning_oracle_calls, last_repair_response, last_repair_request, reasoning_output>>
  /\ UNCHANGED <<vpc, local_vars, vresult, count_vars>>
  /\ UNCHANGED <<executor_vars, parser_vars, analysis_vars, endpoint_vars>>

\* verify() has returned: assign verification_result and check the exits.
CheckExit ==
  /\ pc = "verify"
  /\ vpc = "returned"
  /\ LeaveVerify
  /\ verification_result' = vresult
  /\ IF ExitsLoop(vresult.status)
     THEN ReturnPair(vresult, repair_history) /\ UNCHANGED attempt
     ELSE pc' = "loop" /\ attempt' = attempt + 1 /\ UNCHANGED returned
  /\ UNCHANGED <<max_reasoning_attempts, repair_history, current_reasoning, pipeline_runs, reasoning_oracle_calls, last_repair_response, last_repair_request, reasoning_output>>
  /\ UNCHANGED <<vresult, count_vars>>
  /\ UNCHANGED <<executor_vars, parser_vars, analysis_vars, endpoint_vars>>

Next ==
  \/ LoopFirst
  \/ LoopRepair
  \/ LoopExhausted
  \/ CheckExit
  \/ VerifyGenerate
  \/ VerifyExecute
  \/ VerifyAnalyze
  \/ HandleCodegenFaultRepair
  \/ HandleCodegenFaultExecute
  \/ HandleCodegenFaultAnalyze

Spec == Init /\ [][Next]_vars

----------------------------------------------------------------------------
\* SafeExecutor.execute, step by step, in a process where calls may overlap

\* The code a call can be given: the failing kinds; a clean program, which
\* prints one line; and import_bypass, which imports an allowed module and takes the real
\* __import__ from its attributes (collections._sys.modules["builtins"]).
ExecKinds == {"clean", "import_bypass"} \cup FailingKinds
ExecCodes == {Program(k, IF k = "clean" THEN <<StepLine(1, TRUE)>> ELSE <<>>) : k \in ExecKinds}

AllowedModules == {"sympy", "json", "math", "itertools", "functools", "operator", "collections"}

\* The dotted module name of the program's import statement.
ImportOf(prog) ==
  CASE prog.kind = "import_error" -> <<"os", "path">>
    [] prog.kind = "import_bypass" -> <<"collections">>
    [] OTHER -> <<"json">>

\* _restricted_import: the check of name.split('.')[0] comes before the
\* call of __import__.
RestrictedImport(name, loaded) ==
  IF Head(name) \notin AllowedModules
  THEN [raises |-> "ImportError", loaded |-> loaded]
  ELSE [raises |-> "none", loaded |-> loaded \cup ({Head(name)} \ AllowedModules)]

\* What exec(code) raises when the program runs to its end.
ProgramRaises(prog) ==
  CASE prog.kind = "system_exit" -> "SystemExit"
    [] prog.kind = "runtime_error" -> ExceptionOf(prog)
    [] OTHER -> RestrictedImport(ImportOf(prog), {}).raises

\* except Exception catches it.
IsException(e) == e \notin {"none", "SystemExit"}

\* Calls of execute made in the process so far.
CallsMade == ncalls["main"] + ncalls["worker"]

\* stdout_capture, stderr_capture of the call the thread is in
Capture(t) == <<t, ncalls[t]>>


\* The stream is the host's or the capture of a call in progress; the
\* capture of a call that is over is read by nobody.
Live(k) == k = HostStream \/ \E t \in Threads : k = Capture(t) /\ epc[t] \notin {"returned", "raised"}

\* text is written to stream k.
Write(streams, k, text) == IF Live(k) THEN [streams EXCEPT ![k] = @ \o text] ELSE streams

\* execute is called by a thread that is in no call: the locals of the new
\* frame, then ast.parse(code).
ExecuteEnter(t) ==
  /\ epc[t] \in {"idle", "returned"}
  /\ CallsMade < MaxCalls
  /\ ncalls' = [ncalls EXCEPT ![t] = @ + 1]
  /\ old_stdout' = [old_stdout EXCEPT ![t] = sys_stdout]
  /\ old_stderr' = [old_stderr EXCEPT ![t] = sys_stderr]
  /\ original_handler' = [original_handler EXCEPT ![t] = "unbound"]
  /\ fired' = [fired EXCEPT ![t] = FALSE]
  /\ eresult' = [eresult EXCEPT ![t] = NoExecResult]
  /\ \E prog \in ExecCodes :
       /\ ecode' = [ecode EXCEPT ![t] = prog]
       /\ IF prog.kind = "syntax_error"
          THEN epc' = [epc EXCEPT ![t] = "except"] /\ exc' = [exc EXCEPT ![t] = ExceptionOf(prog)]
          ELSE epc' = [epc EXCEPT ![t] = "entered"] /\ exc' = [exc EXCEPT ![t] = "none"]
  /\ UNCHANGED process_vars
  /\ UNCHANGED <<pipeline_vars, parser_vars, analysis_vars, endpoint_vars>>

\* sys.stdout = stdout_capture; sys.stderr = stderr_capture
ExecuteRedirect(t) ==
  /\ epc[t] = "entered"
  /\ epc' = [epc EXCEPT ![t] = "redirected"]
  /\ sys_stdout' = Capture(t)
  /\ sys_stderr' = Capture(t)
  /\ UNCHANGED <<sigalrm_handler, alarm_pending, rlimit_as, loaded_modules, stdout_of, stderr_of, resource_ok>>
  /\ UNCHANGED <<ncalls, ecode, old_stdout, old_stderr, original_handler, exc, fired, eresult>>
  /\ UNCHANGED <<pipeline_vars, parser_vars, analysis_vars, endpoint_vars>>

\* _apply_resource_limits: setrlimit, or the warning printed to sys.stderr.
ApplyResourceLimits(t) ==
  /\ epc[t] = "redirected"
  /\ epc' = [epc EXCEPT ![t] = "limited"]
  /\ IF resource_ok
     THEN rlimit_as' = "max_memory" /\ UNCHANGED stderr_of
     ELSE stderr_of' = Write(stderr_of, sys_stderr, <<"warning">>) /\ UNCHANGED rlimit_as
  /\ UNCHANGED <<sys_stdout, sys_stderr, sigalrm_handler, alarm_pending, loaded_modules, stdout_of, resource_ok>>
  /\ UNCHANGED <<ncalls, ecode, old_stdout, old_stderr, original_handler, exc, fired, eresult>>
  /\ UNCHANGED <<pipeline_vars, parser_vars, analysis_vars, endpoint_vars>>

\* The finally of _timeout_context: signal.alarm(0), then the handler back.
TimeoutContextExit(t) ==
  /\ alarm_pending' = FALSE
  /\ sigalrm_handler' = original_handler[t]

\* _timeout_context is entered. signal.signal works in the main thread
\* only: elsewhere it raises ValueError, and the finally disables the alarm
\* and then reads original_handler, which is unbound.
TimeoutContextEnter(t) ==
  /\ epc[t] = "limited"
  /\ IF t = "main"
     THEN /\ original_handler' = [original_handler EXCEPT ![t] = sigalrm_handler]
          /\ sigalrm_handler' = t
          /\ alarm_pending' = TRUE
          /\ epc' = [epc EXCEPT ![t] = "running"]
          /\ UNCHANGED exc
     ELSE /\ alarm_pending' = FALSE
          /\ exc' = [exc EXCEPT ![t] = "UnboundLocalError"]
          /\ epc' = [epc EXCEPT ![t] = "except"]
          /\ UNCHANGED <<original_handler, sigalrm_handler>>
  /\ UNCHANGED <<sys_stdout, sys_stderr, rlimit_as, loaded_modules, stdout_of, stderr_of, resource_ok>>
  /\ UNCHANGED <<ncalls, ecode, old_stdout, old_stderr, fired, eresult>>
  /\ UNCHANGED <<pipeline_vars, parser_vars, analysis_vars, endpoint_vars>>

\* The program prints its line: print writes to whatever sys.stdout is now.
ProgramPrint(t) ==
  /\ epc[t] = "running"
  /\ ecode[t].stdout # <<>>
  /\ epc' = [epc EXCEPT ![t] = "printed"]
  /\ stdout_of' = Write(stdout_of, sys_stdout, ecode[t].stdout)
  /\ UNCHANGED <<sys_stdout, sys_stderr, sigalrm_handler, alarm_pending, rlimit_as, loaded_modules, stderr_of, resource_ok>>
  /\ UNCHANGED <<ncalls, ecode, old_stdout, old_stderr, original_handler, exc, fired, eresult>>
  /\ UNCHANGED <<pipeline_vars, parser_vars, analysis_vars, endpoint_vars>>

\* exec(code) ends, normally or with what the program raises, and the with
\* block is left. The two looping kinds never get here.
ProgramEnd(t) ==
  /\ \/ epc[t] = "running" /\ ecode[t].stdout = <<>>
     \/ epc[t] = "printed"
  /\ ecode[t].kind \notin {"timeout", "timeout_swallowed"}
  /\ exc' = [exc EXCEPT ![t] = ProgramRaises(ecode[t])]
  /\ loaded_modules' = RestrictedImport(ImportOf(ecode[t]), loaded_modules).loaded
                         \cup (IF ecode[t].kind = "import_bypass" THEN {"os"} ELSE {})
  /\ TimeoutContextExit(t)
  /\ epc' = [epc EXCEPT ![t] = "exited"]
  /\ UNCHANGED <<sys_stdout, sys_stderr, rlimit_as, stdout_of, stderr_of, resource_ok>>
  /\ UNCHANGED <<ncalls, ecode, old_stdout, old_stderr, original_handler, fired, eresult>>
  /\ UNCHANGED <<pipeline_vars, parser_vars, analysis_vars, endpoint_vars>>

\* The deadline passes: SIGALRM is delivered and timeout_handler raises
\* TimeoutError in the running program. The alarm is not set again, so a
\* program that catches the exception goes on running.
TimeoutHandler(t) ==
  /\ alarm_pending
  /\ sigalrm_handler = t
  /\ epc[t] \in {"running", "printed"}
  /\ fired' = [fired EXCEPT ![t] = TRUE]
  /\ IF ecode[t].kind = "timeout_swallowed"
     THEN /\ alarm_pending' = FALSE
          /\ UNCHANGED <<sigalrm_handler, exc, epc>>
     ELSE /\ exc' = [exc EXCEPT ![t] = "TimeoutError"]
          /\ TimeoutContextExit(t)
          /\ epc' = [epc EXCEPT ![t] = "exited"]
  /\ UNCHANGED <<sys_stdout, sys_stderr, rlimit_as, loaded_modules, stdout_of, stderr_of, resource_ok>>
  /\ UNCHANGED <<ncalls, ecode, old_stdout, old_stderr, original_handler, eresult>>
  /\ UNCHANGED <<pipeline_vars, parser_vars, analysis_vars, endpoint_vars>>

\* The return, the except Exception clause, and the finally that puts
\* old_stdout and old_stderr back; an exception that is no Exception leaves
\* execute. The captures go with the frame.
ExecuteReturn(t) ==
  /\ epc[t] \in {"exited", "except"}
  /\ sys_stdout' = old_stdout[t]
  /\ sys_stderr' = old_stderr[t]
  /\ CASE exc[t] = "none" -> /\ eresult' = [eresult EXCEPT ![t] = ExecResult(TRUE, stdout_of[Capture(t)], stderr_of[Capture(t)], "none")]
                            /\ epc' = [epc EXCEPT ![t] = "returned"]
       [] IsException(exc[t]) -> /\ eresult' = [eresult EXCEPT ![t] = ExecResult(FALSE, stdout_of[Capture(t)], Append(stderr_of[Capture(t)], "traceback"), exc[t])]
                                 /\ epc' = [epc EXCEPT ![t] = "returned"]
       [] OTHER -> /\ epc' = [epc EXCEPT ![t] = "raised"]
                   /\ UNCHANGED eresult
  /\ stdout_of' = [stdout_of EXCEPT ![Capture(t)] = <<>>]
  /\ stderr_of' = [stderr_of EXCEPT ![Capture(t)] = <<>>]
  /\ UNCHANGED <<sigalrm_handler, alarm_pending, rlimit_as, loaded_modules, resource_ok>>
  /\ UNCHANGED <<ncalls, ecode, old_stdout, old_stderr, original_handler, exc, fired>>
  /\ UNCHANGED <<pipeline_vars, parser_vars, analysis_vars, endpoint_vars>>

ExecutorInit ==
  /\ PipelineInit
  /\ max_reasoning_attempts = 0
  /\ ExecutorIdle
  /\ resource_ok \in BOOLEAN
  /\ ParserIdle
  /\ AnalysisIdle
  /\ request = NoRequest

ExecutorNext ==
  \E t \in Threads :
    \/ ExecuteEnter(t)
    \/ ExecuteRedirect(t)
    \/ ApplyResourceLimits(t)
    \/ TimeoutContextEnter(t)
    \/ ProgramPrint(t)
    \/ ProgramEnd(t)
    \/ TimeoutHandler(t)
    \/ ExecuteReturn(t)

ExecutorSpec == ExecutorInit /\ [][ExecutorNext]_vars

----------------------------------------------------------------------------
\* VerificationOutputParser.parse, called on its own

\* The lines a program can print: step records with an integer, a boolean
\* or a string under "step" and a boolean or a string under "verified";
\* verdict records with a boolean or a string; an object with all three
\* keys; an object with none of the keys; a number, a null, a string and
\* an array without the key words, a string with the words step and
\* verified in it; a line that is not JSON; a blank line.
ParserLines ==
  {StepLine(1, TRUE), StepLine(2, FALSE),
   Line("object", JBool(TRUE), JBool(TRUE), JAbsent),
   Line("object", JStr, JBool(TRUE), JAbsent),
   Line("object", JInt(3), JStr, JAbsent),
   VerdictLine(TRUE), VerdictLine(FALSE),
   Line("object", JAbsent, JAbsent, JStr),
   Line("object", JInt(4), JBool(TRUE), JBool(FALSE)),
   Line("object", JAbsent, JAbsent, JAbsent),
   Line("number", JAbsent, JAbsent, JAbsent),
   Line("null", JAbsent, JAbsent, JAbsent),
   Line("string", JAbsent, JAbsent, JAbsent),
   Line("array", JAbsent, JAbsent, JAbsent),
   Line("string", JStr, JStr, JAbsent),
   NotJsonLine, BlankLine}

ParserInit ==
  /\ PipelineInit
  /\ max_reasoning_attempts = 0
  /\ ExecutorIdle
  /\ resource_ok = TRUE
  /\ ppc = "start"
  /\ stdout_lines \in SeqsUpTo(ParserLines, MaxLines)
  /\ parse_result = ParseOut(<<>>, NoVerdict, NoError)
  /\ AnalysisIdle
  /\ request = NoRequest

\* parse(execution_result) for a successful execution with this stdout.
ParseCall ==
  /\ ppc = "start"
  /\ ppc' = "done"
  /\ parse_result' = Parse(ExecResult(TRUE, stdout_lines, "", "none"))
  /\ UNCHANGED stdout_lines
  /\ UNCHANGED <<pipeline_vars, executor_vars, analysis_vars, endpoint_vars>>

ParserNext == ParseCall

ParserSpec == ParserInit /\ [][ParserNext]_vars

----------------------------------------------------------------------------
\* The analysis of a parsed output, on its own: diagnosis, confidence, errors

\* n step records of which the first k are verified.
StepsOf(n, k) == [i \in 1..n |-> StepVerification(StepLine(i, i <= k))]

\* The outputs analyzed: few steps with any number verified, or many steps
\* with none, one, all but one, or all verified.
AnalyzedSteps ==
  {StepsOf(n, k) : n \in 0..FewSteps, k \in 0..FewSteps} \cup {StepsOf(ManySteps, k) : k \in {0, 1, ManySteps - 1, ManySteps}}

AnalysisInit ==
  /\ PipelineInit
  /\ max_reasoning_attempts = 0
  /\ ExecutorIdle
  /\ resource_ok = TRUE
  /\ ParserIdle
  /\ apc = "start"
  /\ analyzed_steps \in AnalyzedSteps
  /\ analyzed_verdict \in {VerdictLine(TRUE), VerdictLine(FALSE)}
  /\ analyzed_by \in {"first", "repaired"}
  /\ analyzed_result = Unbound
  /\ request = NoRequest

\* The output of a clean run, parsed without error and with a verdict, is
\* diagnosed and the result is built.
AnalyzeOutput ==
  /\ apc = "start"
  /\ apc' = "done"
  /\ LET exec_result == ExecResult(TRUE, <<>>, "", "none")
         status == IF analyzed_by = "first"
                   THEN DiagnoseFirstPass(analyzed_steps, analyzed_verdict)
                   ELSE DiagnoseRepairedPass(analyzed_steps, analyzed_verdict)
     IN analyzed_result' = CreateFinalResult(InputReasoning, NoCode, exec_result, analyzed_steps, analyzed_verdict,
                                             status, analyzed_by = "repaired")
  /\ UNCHANGED <<analyzed_steps, analyzed_verdict, analyzed_by>>
  /\ UNCHANGED <<pipeline_vars, executor_vars, parser_vars, endpoint_vars>>

AnalysisNext == AnalyzeOutput

AnalysisSpec == AnalysisInit /\ [][AnalysisNext]_vars

----------------------------------------------------------------------------
\* The /verify endpoint in front of verify_with_repair

\* The requests received.
Requests == {VerificationRequest(enable, n) : enable \in BOOLEAN, n \in AttemptBudgets}

MaxAttemptsOfIgnoresFlag(req) == req.max_reasoning_attempts

\* max_attempts = request.max_reasoning_attempts if request.enable_reasoning_repair else 0
MaxAttemptsOf(req) == IF req.enable_reasoning_repair THEN req.max_reasoning_attempts ELSE 0

EndpointInit ==
  /\ pc = "endpoint"
  /\ request \in Requests
  /\ max_reasoning_attempts = 0
  /\ attempt = 0
  /\ repair_history = <<>>
  /\ reasoning_output = InputReasoning
  /\ current_reasoning = reasoning_output
  /\ verification_result = Unbound
  /\ returned = NotReturned
  /\ vpc = "idle"
  /\ code = NoCode
  /\ execution_result = NoExecResult
  /\ error_message = ""
  /\ repaired_code = NoCode
  /\ new_exec_result = NoExecResult
  /\ vresult = Unbound
  /\ pipeline_runs = 0
  /\ reasoning_oracle_calls = 0
  /\ last_repair_response = "none"
  /\ last_repair_request = NoRepairRequest
  /\ codegen_calls = 0
  /\ repair_codegen_calls = 0
  /\ exec_calls = 0
  /\ parse_calls = 0
  /\ ExecutorIdle
  /\ resource_ok = TRUE
  /\ ParserIdle
  /\ apc = "done"
  /\ analyzed_steps = <<>>
  /\ analyzed_verdict = NoVerdict
  /\ analyzed_by = "first"
  /\ analyzed_result = Unbound

\* orchestrator.verify_with_repair(reasoning_output, max_reasoning_attempts=max_attempts)
EndpointCall ==
  /\ pc = "endpoint"
  /\ pc' = "loop"
  /\ max_reasoning_attempts' = MaxAttemptsOf(request)
  /\ UNCHANGED <<attempt, repair_history, current_reasoning, verification_result, returned, pipeline_runs,
                 reasoning_oracle_calls, last_repair_response, last_repair_request, reasoning_output>>
  /\ UNCHANGED <<vpc, local_vars, vresult, count_vars>>
  /\ UNCHANGED <<executor_vars, parser_vars, analysis_vars, endpoint_vars>>

EndpointNext ==
  \/ EndpointCall
  \/ Next

EndpointSpec == EndpointInit /\ [][EndpointNext]_vars

----------------------------------------------------------------------------
\* Type invariant

Statuses == {"verified", "failed_reasoning", "failed_pipeline"}

TypeOK ==
  /\ pc \in {"endpoint", "loop", "verify", "done", "raised"}
  /\ vpc \in {"idle", "start", "generated", "executed", "fault", "repair_generated", "repair_executed", "returned", "raised", "hung"}
  /\ max_reasoning_attempts \in AttemptBudgets
  /\ attempt \in 0..(MaxAttempts + 1)
  /\ vresult.status \in Statuses \cup {"unbound"}
  /\ verification_result.status \in Statuses \cup {"unbound"}
  /\ code \in Programs \cup {NoCode}
  /\ repaired_code \in Programs \cup {NoCode}

----------------------------------------------------------------------------
\* Claims about verify_with_repair

Last(h) == h[Len(h)]
SuccessCount(h) == Cardinality({i \in 1..Len(h) : h[i].success})
AllSucceeded(h) == \A i \in 1..Len(h) : h[i].success

\* C1: for every max_reasoning_attempts >= 0 and whatever the oracles and
\* the generated programs do, verify_with_repair returns a pair and never
\* raises.
C1_NeverRaises == max_reasoning_attempts >= 0 => pc # "raised"

\* C2: a pipeline run that returns a status other than failed_reasoning
\* (verified included) is followed at once by the return of that outcome,
\* with no further pipeline run and no further oracle call; and the
\* reasoning-repair oracle is called only directly after a pipeline run
\* that returned failed_reasoning, while fewer than max_reasoning_attempts
\* repairs have been made.
C2_ExitAtOnce ==
  [][ /\ (pc = "verify" /\ vpc = "returned" /\ vresult.status # "failed_reasoning")
         => /\ pc' = "done"
            /\ returned'.result = vresult
            /\ pipeline_runs' = pipeline_runs
            /\ reasoning_oracle_calls' = reasoning_oracle_calls
      /\ (reasoning_oracle_calls' # reasoning_oracle_calls)
         => /\ vpc = "idle"
            /\ verification_result = vresult
            /\ vresult.status = "failed_reasoning"
            /\ reasoning_oracle_calls < max_reasoning_attempts
            /\ Len(repair_history) < max_reasoning_attempts
      /\ (pc = "done") => (pipeline_runs' = pipeline_runs /\ reasoning_oracle_calls' = reasoning_oracle_calls) ]_vars

\* A call with budget left that ended on a failed_pipeline after one repair.
C2_Witness ==
  /\ pc = "done"
  /\ max_reasoning_attempts = 2
  /\ returned.result.status = "failed_pipeline"
  /\ Len(returned.history) = 1
  /\ reasoning_oracle_calls = 1

\* C3: with max_reasoning_attempts = N >= 0 the pipeline is run at least
\* once and at most N+1 times, the history gets at most N entries, and
\* their attempt_number values are 1, 2, ..., k with k <= N.
C3_BoundedAttempts ==
  max_reasoning_attempts >= 0 =>
    /\ pipeline_runs <= max_reasoning_attempts + 1
    /\ Len(repair_history) <= max_reasoning_attempts
    /\ \A i \in 1..Len(repair_history) : repair_history[i].attempt_number = i
    /\ (pc \in {"verify", "done", "raised"}) => pipeline_runs >= 1
    /\ (pc = "done") => returned.history = repair_history

\* A call that used its whole budget of two repairs.
C3_Witness ==
  /\ pc = "done"
  /\ max_reasoning_attempts = 2
  /\ pipeline_runs = 3
  /\ Len(returned.history) = 2
  /\ returned.history[2].attempt_number = 2

\* C4: with max_reasoning_attempts = 0 there is exactly one pipeline run,
\* no call of the reasoning-repair oracle and an empty history, whatever
\* status the run returns.
C4_RepairDisabled ==
  max_reasoning_attempts = 0 =>
    /\ reasoning_oracle_calls = 0
    /\ repair_history = <<>>
    /\ pipeline_runs <= 1
    /\ (pc = "done") => (pipeline_runs = 1 /\ returned.history = <<>> /\ returned.result = vresult)

\* A call with repair disabled whose single run reported a reasoning fault.
C4_Witness ==
  /\ pc = "done"
  /\ max_reasoning_attempts = 0
  /\ returned.result.status = "failed_reasoning"
  /\ pipeline_runs = 1

\* The oracle gave no usable artifact: its call raised, or its response
\* had no content to parse.
OracleFailed(resp) == resp \in {"raises", "no_content"}

\* C5: when the reasoning-repair oracle gives no usable artifact, a
\* RepairAttempt with success = false is appended, no further pipeline run
\* or oracle call is made, and the outcome of the preceding pipeline run is
\* returned with the history; so only the last entry of a history can have
\* success = false, and the pipeline runs are 1 plus the success = true
\* entries.
C5_FailedRepairHalts ==
  /\ [][ (reasoning_oracle_calls' # reasoning_oracle_calls /\ OracleFailed(last_repair_response'))
         => /\ Len(repair_history') = Len(repair_history) + 1
            /\ ~Last(repair_history').success
            /\ pipeline_runs' = pipeline_runs
            /\ pc' = "done"
            /\ returned'.result = vresult
            /\ returned'.history = repair_history' ]_vars
  /\ [][ (reasoning_oracle_calls' # reasoning_oracle_calls /\ ~OracleFailed(last_repair_response'))
         => Last(repair_history').success ]_vars
  /\ [](\A i \in 1..(Len(repair_history) - 1) : repair_history[i].success)
  /\ [](pipeline_runs > 0 => pipeline_runs = 1 + SuccessCount(repair_history))
  /\ []((Len(repair_history) > 0 /\ ~Last(repair_history).success) => pc = "done")

\* A call whose second repair failed after a first one that succeeded.
C5_Witness ==
  /\ pc = "done"
  /\ Len(returned.history) = 2
  /\ returned.history[1].success
  /\ ~returned.history[2].success
  /\ last_repair_response = "no_content"
  /\ pipeline_runs = 2
  /\ returned.result.status = "failed_reasoning"

\* C6: the returned outcome is the result of the most recent pipeline run;
\* when every run returns failed_reasoning and every repair succeeds, the
\* call ends after exactly max_reasoning_attempts + 1 runs, returning the
\* failed_reasoning outcome of the run on the last repaired artifact with a
\* history of exactly max_reasoning_attempts entries.
C6_ReturnsLastOutcome ==
  pc = "done" =>
    /\ returned.result = vresult
    /\ returned.result # Unbound
    /\ (returned.result.status = "failed_reasoning" /\ AllSucceeded(returned.history))
       => /\ pipeline_runs = max_reasoning_attempts + 1
          /\ Len(returned.history) = max_reasoning_attempts
          /\ returned.result.reasoning_output = current_reasoning
          /\ returned.result.reasoning_output.worked_solution = max_reasoning_attempts

\* A call that exhausted a budget of two repairs, still failed_reasoning.
C6_Witness ==
  /\ pc = "done"
  /\ max_reasoning_attempts = 2
  /\ returned.result.status = "failed_reasoning"
  /\ Len(returned.history) = 2
  /\ AllSucceeded(returned.history)
  /\ returned.result.reasoning_output.worked_solution = 2

----------------------------------------------------------------------------
\* Claims about VerificationPipeline.verify

\* A run is a codegen fault when execution failed, the parser returned a
\* parse error, or the final verdict is missing.
CodegenFault(er) ==
  \/ ~er.success
  \/ Parse(er).parsing_error # NoError
  \/ Parse(er).final_verdict = NoVerdict

\* The run reported a false step or a false final verdict.
ReasoningFault(er) == ~AllVerified(Parse(er).steps) \/ ~FinalAnswerVerified(Parse(er).final_verdict)

\* C7: within one verify() call, code generation in repair mode is invoked
\* exactly once if the first run had a codegen fault and not at all
\* otherwise; a first run that executed cleanly and obeyed the contract but
\* reported a false step or verdict is returned as failed_reasoning without
\* code repair.
C7_RepairOnceOnCodegenFault ==
  /\ [][ (vpc = "executed" /\ CodegenFault(execution_result))
         => (vpc' = "fault" /\ repair_codegen_calls' = 0) ]_vars
  /\ [][ (vpc = "executed" /\ ~CodegenFault(execution_result))
         => /\ vpc' = "returned"
            /\ repair_codegen_calls' = 0
            /\ ~vresult'.metadata.repaired_from_codegen_fault
            /\ ReasoningFault(execution_result) => vresult'.status = "failed_reasoning" ]_vars
  /\ [][ (vpc = "fault") => repair_codegen_calls' = 1 ]_vars
  /\ [][ (repair_codegen_calls' # repair_codegen_calls)
         => (vpc = "fault" /\ repair_codegen_calls = 0) \/ (vpc' = "start" /\ repair_codegen_calls' = 0) ]_vars
  /\ [](vpc = "returned"
        => repair_codegen_calls = (IF execution_result # NoExecResult /\ CodegenFault(execution_result) THEN 1 ELSE 0))

\* A verify() whose first run printed a false step and a true verdict and
\* that returned failed_reasoning with no code repair.
C7_Witness ==
  /\ vpc = "returned"
  /\ execution_result.success
  /\ ~CodegenFault(execution_result)
  /\ ~AllVerified(Parse(execution_result).steps)
  /\ vresult.status = "failed_reasoning"
  /\ repair_codegen_calls = 0
  /\ codegen_calls = 1

\* C8: one verify() call makes at most two calls of the code-generation
\* oracle and at most two executions; a fault in the repaired code never
\* triggers another repair.
C8_AtMostTwo ==
  /\ [](codegen_calls <= 2 /\ exec_calls <= 2 /\ repair_codegen_calls <= 1)
  /\ [][ (vpc = "repair_executed")
         => (vpc' = "returned" /\ codegen_calls' = codegen_calls /\ exec_calls' = exec_calls) ]_vars

\* A verify() that returned after a repaired run that was itself faulty.
C8_Witness ==
  /\ vpc = "returned"
  /\ CodegenFault(new_exec_result)
  /\ new_exec_result # NoExecResult
  /\ codegen_calls = 2
  /\ exec_calls = 2

\* C9: after a codegen fault, a repair that yields no code, a repaired code
\* that fails execution, and a repaired output with a parse error or
\* without the final verdict all end in failed_pipeline; verified and
\* failed_reasoning never come from a run that failed execution or violated
\* the contract.
C9_FaultyRepairFails ==
  /\ [][ (vpc = "fault" /\ vpc' = "returned") => vresult'.status = "failed_pipeline" ]_vars
  /\ [][ (vpc = "repair_executed" /\ CodegenFault(new_exec_result)) => vresult'.status = "failed_pipeline" ]_vars
  /\ [](vresult.status \in {"verified", "failed_reasoning"}
        => (vresult.execution_result # NoExecResult /\ ~CodegenFault(vresult.execution_result)))
  /\ []((vpc = "returned" /\ vresult.status \in {"verified", "failed_reasoning"})
        => vresult.execution_result = (IF vresult.metadata.repaired_from_codegen_fault THEN new_exec_result ELSE execution_result))

\* A verify() whose first and repaired code both timed out.
C9_Witness ==
  /\ vpc = "returned"
  /\ execution_result.exception_type = "TimeoutError"
  /\ new_exec_result.exception_type = "TimeoutError"
  /\ vresult.status = "failed_pipeline"

\* C10: every verified outcome, of the first pass or of the repaired pass,
\* comes from an execution that succeeded and parsed without error, has a
\* final verdict with final_answer_verified = true, and has every recorded
\* StepVerification verified.
VerifiedIsSound(r) ==
  r.status = "verified" =>
    /\ r.execution_result.success
    /\ Parse(r.execution_result).parsing_error = NoError
    /\ FinalAnswerVerified(Parse(r.execution_result).final_verdict)
    /\ r.answer_match = "true"
    /\ r.step_verifications = Parse(r.execution_result).steps
    /\ AllVerified(r.step_verifications)

C10_VerifiedIsSound == VerifiedIsSound(vresult) /\ VerifiedIsSound(verification_result) /\ VerifiedIsSound(returned.result)

\* A verified outcome of the repaired pass with a recorded step.
C10_Witness ==
  /\ pc = "done"
  /\ returned.result.status = "verified"
  /\ returned.result.metadata.repaired_from_codegen_fault
  /\ Len(returned.result.step_verifications) = 1

\* The status the diagnosis owes a clean, contract-abiding run.
ExpectedStatus(er) == IF ReasoningFault(er) THEN "failed_reasoning" ELSE "verified"

\* C11: a clean run of the first pass and a clean run of the repaired pass
\* are diagnosed alike: failed_reasoning if a step is false or the final
\* verdict is false, verified otherwise; the same steps and verdict give the
\* same status in both passes.
C11_SameDiagnosis ==
  /\ [][ (vpc = "executed" /\ ~CodegenFault(execution_result))
         => vresult'.status = ExpectedStatus(execution_result) ]_vars
  /\ [][ (vpc = "repair_executed" /\ ~CodegenFault(new_exec_result))
         => vresult'.status = ExpectedStatus(new_exec_result) ]_vars
  /\ [](\A out \in PipelineStdouts :
          LET parsed == ParseLines(out, <<>>, NoVerdict)
          IN DiagnoseFirstPass(parsed.steps, parsed.final_verdict) = DiagnoseRepairedPass(parsed.steps, parsed.final_verdict))

\* A repaired pass whose only step is verified and whose verdict is false.
C11_Witness ==
  /\ vpc = "returned"
  /\ vresult.metadata.repaired_from_codegen_fault
  /\ vresult.status = "failed_reasoning"
  /\ Len(vresult.step_verifications) = 1
  /\ AllVerified(vresult.step_verifications)
  /\ vresult.answer_match = "false"

\* C12: when the initial code generation fails (the oracle call raises, or
\* its response has no code), verify returns failed_pipeline with a
\* non-empty errors list carrying the generation failure message, and
\* neither the executor, nor the parser, nor the repair-mode generation is
\* invoked.
C12_GenerationFailureIsFinal ==
  /\ [][ (vpc = "start" /\ vpc' # "generated") => vpc' = "returned" ]_vars
  /\ []((vpc \notin {"idle", "start"} /\ code = NoCode)
        => /\ vpc = "returned"
           /\ vresult.status = "failed_pipeline"
           /\ vresult.errors = <<VerificationError("runtime_error", "Initial code generation failed")>>
           /\ codegen_calls = 1
           /\ exec_calls = 0
           /\ parse_calls = 0
           /\ repair_codegen_calls = 0)

\* The generation failed in the pipeline run that followed a reasoning
\* repair.
C12_Witness ==
  /\ vpc = "returned"
  /\ code = NoCode
  /\ pipeline_runs = 2
  /\ vresult.status = "failed_pipeline"
  /\ exec_calls = 0

\* Nothing but errors is populated in a failed_pipeline outcome.
FailureHasNoFields(r) ==
  r.status = "failed_pipeline" =>
    /\ r.errors # <<>>
    /\ r.execution_result = NoExecResult
    /\ r.step_verifications = <<>>
    /\ r.answer_match = "none"
    /\ r.generated_code = NoCode

\* C18: every outcome with status failed_pipeline has no field populated
\* beyond errors: no execution result, no steps, no answer_match, and an
\* empty generated_code.
C18_FailureHasNoFields == FailureHasNoFields(vresult) /\ FailureHasNoFields(verification_result) /\ FailureHasNoFields(returned.result)

----------------------------------------------------------------------------
\* Claims about SafeExecutor.execute

\* The thread is inside a call of execute.
InCall(t) == epc[t] \notin {"idle", "returned", "raised"}

\* Some step of the call the thread is in can be taken.
CanStep(t) ==
  \/ ENABLED ExecuteRedirect(t)
  \/ ENABLED ApplyResourceLimits(t)
  \/ ENABLED TimeoutContextEnter(t)
  \/ ENABLED ProgramPrint(t)
  \/ ENABLED ProgramEnd(t)
  \/ ENABLED TimeoutHandler(t)
  \/ ENABLED ExecuteReturn(t)

TimedOut(r) == ~r.success /\ r.exception_type = "TimeoutError"

\* C13: a call of execute, whatever its code (a non-terminating loop with
\* its own exception handlers included), is never left without a step that
\* takes it towards its return; once the deadline has passed the code runs
\* no longer, and the call's outcome is a result with success = false and
\* the exception type TimeoutError. Stated for calls made one at a time
\* from the main thread.
C13_ExecuteReturns ==
  ncalls["worker"] = 0 =>
    /\ InCall("main") => CanStep("main")
    /\ fired["main"] => epc["main"] \notin {"running", "printed"}
    /\ (fired["main"] /\ epc["main"] = "returned") => TimedOut(eresult["main"])

\* C14: execute never raises to its caller; it returns a result whose
\* success is false exactly when the exception fields are populated.
C14_NeverRaises ==
  \A t \in Threads :
    /\ epc[t] # "raised"
    /\ epc[t] = "returned" => (~eresult[t].success <=> eresult[t].exception_type # "none")

\* C15: when calls of execute overlap in one process, each result holds the
\* output of its own code and no other, the deadline of a running call
\* stays armed until it fires or the code ends, and once no call is in
\* progress sys.stdout and sys.stderr are the streams of the host again.
C15_ConcurrentCallsIsolated ==
  /\ \A t \in Threads :
       epc[t] = "returned" =>
         /\ eresult[t].stdout \in {<<>>, ecode[t].stdout}
         /\ eresult[t].success => eresult[t].stdout = ecode[t].stdout
  /\ (epc["main"] \in {"running", "printed"} /\ ~fired["main"]) => alarm_pending
  /\ (\A t \in Threads : ~InCall(t)) => (sys_stdout = HostStream /\ sys_stderr = HostStream)

\* C16: after a call of execute is over, sys.stdout, sys.stderr, the SIGALRM
\* handler, the pending alarm and the resource limit are what they were
\* before the call. Stated for calls made one at a time from the main
\* thread.
C16_ProcessStateRestored ==
  (ncalls["worker"] = 0 /\ ~InCall("main")) =>
    /\ sys_stdout = HostStream
    /\ sys_stderr = HostStream
    /\ sigalrm_handler = "host"
    /\ ~alarm_pending
    /\ rlimit_as = "inherited"

\* The program imports a module outside the allow-list: by an import
\* statement, or by the __import__ it finds in an allowed module.
ImportsOutside(prog) == prog.kind \in {"import_error", "import_bypass"}

\* C17: code that imports a module outside the allow-list fails with an
\* ImportError result, and no such module's import is ever run. Stated for
\* the calls whose code is executed (main thread) and that the deadline did
\* not end.
C17_DisallowedImportFails ==
  /\ loaded_modules = {}
  /\ (ImportsOutside(ecode["main"]) /\ epc["main"] = "returned" /\ ~fired["main"])
       => (~eresult["main"].success /\ eresult["main"].exception_type = "ImportError")

----------------------------------------------------------------------------
\* Claims about VerificationOutputParser.parse

IsNotJson(l) == l.json = "invalid"
HasBothKeys(l) == l.json = "object" /\ l.step.t # "absent" /\ l.verified.t # "absent"

\* The index of the first line that is not JSON, 0 if there is none.
FirstNotJson(lines) ==
  IF \E k \in 1..Len(lines) : IsNotJson(lines[k])
  THEN CHOOSE k \in 1..Len(lines) : IsNotJson(lines[k]) /\ \A j \in 1..(k - 1) : ~IsNotJson(lines[j])
  ELSE 0

\* C19: when the stdout of a successful execution has a non-blank line that
\* is not valid JSON, parse returns a parse error and nothing of the result
\* comes from the first such line or a later one: there are no more steps
\* than step records before it, and the verdict is none or a line before
\* it.
C19_StopsAtNotJson ==
  (ppc = "done" /\ FirstNotJson(stdout_lines) > 0) =>
    LET k == FirstNotJson(stdout_lines)
    IN /\ parse_result.parsing_error # NoError
       /\ Len(parse_result.steps) <= Cardinality({j \in 1..(k - 1) : HasBothKeys(stdout_lines[j])})
       /\ parse_result.final_verdict = NoVerdict \/ \E j \in 1..(k - 1) : stdout_lines[j] = parse_result.final_verdict

\* A line that is not JSON followed by a verdict, which is not taken.
C19_Witness ==
  /\ ppc = "done"
  /\ stdout_lines = <<NotJsonLine, VerdictLine(TRUE)>>
  /\ parse_result.parsing_error = "JSONDecodeError"
  /\ parse_result.final_verdict = NoVerdict

IsJsonInteger(x) == x.t = "int"
IsJsonBoolean(x) == x.t = "bool"

\* The step records the contract accepts, in order.
ContractSteps(lines) ==
  LET accepted == SelectSeq(lines, LAMBDA l : HasBothKeys(l) /\ IsJsonInteger(l.step) /\ IsJsonBoolean(l.verified))
  IN [j \in 1..Len(accepted) |-> StepVerification(accepted[j])]

\* C20: of the object lines with both keys, exactly those with a JSON
\* integer under step and a JSON boolean under verified become
\* StepVerifications; the others are skipped without a parse error and the
\* lines after them are processed. Stated for outputs all of whose lines
\* are objects or blank.
C20_StepRecordTypes ==
  (ppc = "done" /\ \A k \in 1..Len(stdout_lines) : stdout_lines[k].json \in {"object", "blank"}) =>
    /\ parse_result.parsing_error = NoError
    /\ parse_result.steps = ContractSteps(stdout_lines)

AllObjectsOrBlank(lines) == \A k \in 1..Len(lines) : lines[k].json \in {"object", "blank"}

\* The index of the last line with the property, 0 if there is none.
LastIndex(lines, P(_)) ==
  IF \E k \in 1..Len(lines) : P(lines[k])
  THEN CHOOSE k \in 1..Len(lines) : P(lines[k]) /\ \A j \in (k + 1)..Len(lines) : ~P(lines[j])
  ELSE 0

CarriesBooleanVerdict(l) == l.json = "object" /\ l.fav.t = "bool"

\* A verdict record: it carries a boolean final_answer_verified and is not
\* taken for a step record.
IsVerdictRecord(l) == CarriesBooleanVerdict(l) /\ ~HasBothKeys(l)

----------------------------------------------------------------------------
\* Claims about the analysis of a parsed output

\* confidence_score is kept in units of 0.0001: 10000 is 1.0, 5000 is 0.5.
ConfidenceByStatus(r) ==
  /\ r.confidence_score >= 0 /\ r.confidence_score <= 10000
  /\ r.status = "verified" => r.confidence_score = 10000
  /\ r.status = "failed_pipeline" => r.confidence_score = 0
  /\ r.status = "failed_reasoning" => (r.confidence_score >= 5000 /\ r.confidence_score < 10000)

\* C22: every verified outcome has confidence exactly 1.0, every
\* failed_pipeline outcome 0.0, every failed_reasoning outcome a confidence
\* in [0.5, 1.0), so a verified outcome always scores strictly higher than a
\* failed_reasoning one; every confidence lies in [0, 1].
C22_ConfidenceByStatus == apc = "done" => ConfidenceByStatus(analyzed_result)

----------------------------------------------------------------------------
\* Claims about the repair history

\* This step calls the reasoning-repair oracle.
ReasoningRepairMade == reasoning_oracle_calls' # reasoning_oracle_calls

\* This step calls the code-generation oracle for a repair of the code.
CodeRepairMade == repair_codegen_calls' # repair_codegen_calls

\* The history grows by exactly one entry, of this repair type.
RecordsOne(type) ==
  /\ Len(repair_history') = Len(repair_history) + 1
  /\ SubSeq(repair_history', 1, Len(repair_history)) = repair_history
  /\ repair_history'[Len(repair_history')].repair_type = type

\* C23: the repair history returned by verify_with_repair holds, in the
\* order they happened, one entry for every repair attempt of the call:
\* every reasoning repair made by the orchestrator and every code repair
\* made inside a pipeline run appends its entry, and the list returned is
\* that list.
C23_HistoryRecordsEveryRepair ==
  [][ /\ ReasoningRepairMade => RecordsOne("reasoning")
      /\ CodeRepairMade => RecordsOne("codegen")
      /\ pc' = "done" => returned'.history = repair_history' ]_vars

----------------------------------------------------------------------------
\* Claims about the /verify endpoint

\* C24: for a request with enable_reasoning_repair = false the endpoint
\* calls verify_with_repair with max_reasoning_attempts = 0 whatever the
\* request carries, and no reasoning repair is attempted; for a request with
\* enable_reasoning_repair = true the request's max_reasoning_attempts is
\* passed through unchanged.
C24_RepairSwitch ==
  pc # "endpoint" =>
    /\ ~request.enable_reasoning_repair => (max_reasoning_attempts = 0 /\ reasoning_oracle_calls = 0)
    /\ request.enable_reasoning_repair => max_reasoning_attempts = request.max_reasoning_attempts

\* A request with repair switched off and a budget of 2 whose only run
\* returned failed_reasoning.
C24_Witness ==
  /\ pc = "done"
  /\ ~request.enable_reasoning_repair
  /\ request.max_reasoning_attempts = MaxAttempts
  /\ returned.result.status = "failed_reasoning"
  /\ pipeline_runs = 1
  /\ reasoning_oracle_calls = 0

----------------------------------------------------------------------------
\* Claims about the errors of a failed_pipeline outcome

\* The error kind of the fault a first run ended with: that of the
\* exception when execution failed, contract_violation when the code ran.
KindOfCause(exec_result) ==
  IF exec_result.success THEN "contract_violation"
  ELSE CASE exec_result.exception_type = "SyntaxError" -> "syntax_error"
         [] exec_result.exception_type = "ImportError" -> "import_error"
         [] exec_result.exception_type = "TimeoutError" -> "timeout"
         [] OTHER -> "runtime_error"

\* C25: when verify() ends in failed_pipeline after the generated code ran
\* into a fault, the kind of the reported error is the kind of that fault:
\* syntax error, disallowed import, runtime exception, timeout or contract
\* violation, not one fixed kind for all of them.
C25_ErrorKindPerCause ==
  (vpc = "returned" /\ vresult.status = "failed_pipeline" /\ code # NoCode)
    => (vresult.errors # <<>> /\ vresult.errors[1].error_type = KindOfCause(execution_result))

----------------------------------------------------------------------------
\* Claims about the code-repair request

\* C26: the error text given to the code-repair oracle describes the fault
\* that triggered the repair: the captured stderr (traceback) when
\* execution failed, and the parse-error or missing-verdict description
\* when the code ran but violated the contract, also when that clean run
\* wrote something to stderr; the original code goes with it.
C26_RepairErrorText ==
  vpc = "fault" =>
    /\ code # NoCode
    /\ ~execution_result.success => error_message = execution_result.stderr
    /\ execution_result.success => error_message = FirstRunFault(execution_result)

----------------------------------------------------------------------------
\* Claims about noise lines

\* A line of valid JSON that is neither a step record nor a final-verdict
\* record: a value that is no object, or an object with other keys.
IsNoise(l) ==
  \/ l.json \in {"number", "bool", "null"}
  \/ l.json \in {"string", "array"} /\ ~(l.step.t # "absent" /\ l.verified.t # "absent") /\ l.fav.t = "absent"
  \/ l.json = "object" /\ ~HasBothKeys(l) /\ l.fav.t = "absent"

WithoutNoise(lines) == SelectSeq(lines, LAMBDA l : ~IsNoise(l))

\* C27: a line of valid JSON that is neither a step record nor a verdict
\* record (an object with other keys, or a number, string, array or null)
\* is tolerated as noise: parse returns a parse error only when some line is
\* not valid JSON, and the steps and the verdict are those of the output
\* without its noise lines.
C27_NoiseTolerated ==
  ppc = "done" =>
    LET without == Parse(ExecResult(TRUE, WithoutNoise(stdout_lines), "", "none"))
    IN /\ parse_result.parsing_error # NoError => \E k \in 1..Len(stdout_lines) : IsNotJson(stdout_lines[k])
       /\ parse_result.steps = without.steps
       /\ parse_result.final_verdict = without.final_verdict

----------------------------------------------------------------------------
\* Claims about budgets below zero

\* C28: verify_with_repair returns an outcome also for a
\* max_reasoning_attempts below zero: it does not raise, and when it has
\* returned it has made the initial pipeline run, exactly one, and the
\* history is empty.
C28_NegativeBudgetReturns ==
  max_reasoning_attempts < 0 =>
    /\ pc # "raised"
    /\ pc = "done" => (pipeline_runs = 1 /\ returned.history = <<>> /\ returned.result.status \in Statuses)

----------------------------------------------------------------------------
\* Claims about the errors of an outcome and the repair feedback

HasError(r, type) == \E i \in 1..Len(r.errors) : r.errors[i].error_type = type

ErrorsExplain(r) ==
  /\ r.status = "failed_reasoning" =>
       /\ r.errors # <<>>
       /\ HasError(r, "answer_mismatch") <=> r.answer_match = "false"
       /\ HasError(r, "assertion_failed") <=> ~AllVerified(r.step_verifications)
  /\ r.status = "verified" => r.errors = <<>>

\* The orchestrator is about to ask for a reasoning repair.
AboutToRepair == pc = "loop" /\ InRange(attempt, max_reasoning_attempts) /\ IsRepairIteration(attempt)

\* C29: every failed_reasoning outcome has a non-empty errors list, with an
\* answer-mismatch error exactly when final_answer_verified is false and a
\* step-failure error exactly when some step has verified = false; every
\* verified outcome has an empty errors list; and the feedback built for the
\* reasoning-repair oracle is never empty.
C29_ErrorsExplainFailure ==
  /\ ErrorsExplain(vresult)
  /\ ErrorsExplain(verification_result)
  /\ ErrorsExplain(returned.result)
  /\ AboutToRepair => CreateReasoningRepairContext(verification_result) # <<>>

\* A repair is about to be asked for an outcome whose steps all verified
\* and whose answer did not.
C29_Witness ==
  /\ AboutToRepair
  /\ verification_result.status = "failed_reasoning"
  /\ AllVerified(verification_result.step_verifications)
  /\ Len(verification_result.errors) = 1
  /\ verification_result.errors[1].error_type = "answer_mismatch"

----------------------------------------------------------------------------
\* Claims about the artifacts of a call

\* C30: in one verify_with_repair call every artifact handed to the
\* pipeline has the original_problem of the caller's artifact, the caller's
\* artifact is never modified, and each reasoning-repair request carries
\* the problem and the worked solution of the artifact that was verified
\* most recently, not of the caller's.
C30_ArtifactsOfOneProblem ==
  /\ [](/\ reasoning_output = InputReasoning
        /\ current_reasoning.original_problem = reasoning_output.original_problem
        /\ vpc # "idle" => current_reasoning.original_problem = InputReasoning.original_problem)
  /\ [][ /\ reasoning_output' = reasoning_output
         /\ ReasoningRepairMade =>
              /\ last_repair_request'.original_problem = reasoning_output.original_problem
              /\ last_repair_request'.failed_solution = verification_result.reasoning_output.worked_solution ]_vars

\* The second repair request of a call carried the worked solution of the
\* first repair, and the artifact of the second repair is being verified.
C30_Witness ==
  /\ pc = "verify"
  /\ reasoning_oracle_calls = 2
  /\ last_repair_request = RepairVariables("problem", 1)
  /\ current_reasoning = Reasoning("problem", 2)

====
